---- MODULE Spec2Model ----
(***************************************************************************)
(* Model of the pastebin scraper's main() (src/main.go): the control loop  *)
(* (lines 164-203), the output worker (142-150), the error worker          *)
(* (152-162) and the two unbuffered channels that connect them.            *)
(*                                                                         *)
(* Time is kept as clocks, in seconds: instead of time.Now() and the       *)
(* stored time.Time values the model keeps, for every stored time t, the   *)
(* age now - t.  A clock stops counting at a cap that lies beyond every    *)
(* value the code compares it with.  Statements of the control loop take   *)
(* no time; time passes while the control loop is blocked: in time.Sleep,  *)
(* in a collaborator call, or in a channel send.                           *)
(*                                                                         *)
(* parseKeywords (77-106) and checkKeywords (35-65) are functions of their *)
(* arguments; MatchSpec applies them to every list of keywords and every   *)
(* body within the bounds.                                                 *)
(***************************************************************************)
EXTENDS Integers, Sequences, FiniteSets, TLC

VARIABLES
    pc,             \* control loop: position in the for loop of main()
    sinceCheck,     \* now - lastCheck
    sleepTime,      \* sleepTime of line 166
    alredyChecked,  \* key -> now - alredyChecked[key]
    pastes,         \* the listing fetchPasteList returned
    idx,            \* position of the range loop of line 179 in pastes
    chanError,      \* senders blocked in a send on chanError, first come first
    chanOutput,     \* senders blocked in a send on chanOutput
    outPc,          \* output worker: position
    outP,           \* output worker: p of line 143
    errPc,          \* error worker: position
    Mailonerror,    \* c.Mailonerror
    sinceList,      \* history: time since the last fetchPasteList call, -1 = none
    sinceFetch,     \* history: time since the last p.fetch call, -1 = none
    lastFetch,      \* history: key -> time since its last p.fetch call, -1 = none
    cycleFetches,   \* history: key -> p.fetch calls in this iteration of the for loop
    cycleErrs,      \* history: sends on chanError by the control loop since then
    cycleOuts,      \* history: sends on chanOutput by the control loop since then
    listOk,         \* history: the last fetchPasteList call returned no error
    outLog,         \* history: pastes the control loop sent that no worker received yet
    errLog,         \* history: errors the control loop sent that no worker received yet
    outRecvPos,     \* history: idx of the last paste received in this iteration, 0 = none
    errRecvPos,     \* history: idx of the last fetch error received in this iteration
    gapList,        \* history: time between the last two fetchPasteList calls, -1 = none
    gapFetch,       \* history: time between the last two p.fetch calls, -1 = none
    gapSame,        \* history: time between the last p.fetch call and the one before for the same key
    inOrder,        \* history: every receive so far took the oldest value of its log
    body,           \* matcher: body of checkKeywords(body, keywords)
    config,         \* matcher: config.Keywords
    keywords,       \* matcher: *keywords, the map parseKeywords returns
    status,         \* matcher: the bool checkKeywords returns
    found,          \* matcher: the map checkKeywords returns
    matchPc         \* matcher: what has been called so far

vars == <<pc, sinceCheck, sleepTime, alredyChecked, pastes, idx, chanError,
          chanOutput, outPc, outP, errPc, Mailonerror, sinceList,
          sinceFetch, lastFetch, cycleFetches, cycleErrs, cycleOuts, listOk,
          outLog,
          errLog, outRecvPos, errRecvPos, gapList, gapFetch, gapSame,
          inOrder, body, config, keywords, status, found, matchPc>>

\* ---------------------------------------------------------------- constants

PollInterval == 60      \* 1 * time.Minute, line 166
ItemDelay == 1          \* 1 * time.Second, line 191
Retention == 600        \* 10 * time.Minute, line 196

\* ------------------------------------------------------------------- bounds

MaxList == 2            \* longest listing fetchPasteList returns
MaxBody == 3            \* longest body, in pieces
MaxKeywords == 2        \* longest list config.Keywords
Keys == {"k1", "k2"}    \* the paste keys the feed lists

\* the clock of a map entry stops counting here
AgeCap == Retention + PollInterval + 1

\* what a blocking call takes beyond its minimum: nothing, or so long that every
\* clock reaches its cap
Elapsed == {0, AgeCap}

Min(a, b) == IF a < b THEN a ELSE b

RECURSIVE SeqsUpTo(_)
SeqsUpTo(n) ==
    IF n = 0 THEN {<<>>}
    ELSE LET S == SeqsUpTo(n - 1)
         IN  S \cup {Append(s, k) : s \in {t \in S : Len(t) = n - 1}, k \in Keys}

\* the listings fetchPasteList may return: any keys, repeated or not
Listings == SeqsUpTo(MaxList)

\* -------------------------------------------------------------------- clocks

\* a clock d seconds later; a clock that never started (-1) stays so
Later(c, d, cap) == IF c < 0 THEN c ELSE Min(c + d, cap)

clocks == <<sinceCheck, alredyChecked, sinceList, sinceFetch, lastFetch>>

\* the map alredyChecked d seconds later: the same entries, each d seconds older
Aged(m, d) == [k \in DOMAIN m |-> Later(m[k], d, AgeCap)]

\* d seconds pass: every clock advances
Tick(d) ==
    /\ sinceCheck' = Later(sinceCheck, d, PollInterval)
    /\ alredyChecked' = Aged(alredyChecked, d)
    /\ sinceList' = Later(sinceList, d, PollInterval)
    /\ sinceFetch' = Later(sinceFetch, d, ItemDelay)
    /\ lastFetch' = [k \in Keys |-> Later(lastFetch[k], d, Retention + 1)]

\* the control loop is blocked for at least `least` seconds
Blocked(least) ==
    \E d \in Elapsed : Tick(least + d)

\* the time until half a minute after lastCheck
UntilHalf(since) == 30 - since

\* time.Until(lastCheck.Add(1 * time.Minute)), line 166
Until(since) == PollInterval - since

\* !v.After(threshold): an entry exactly ten minutes old counts as old too
BeforeOrAt(age) == age >= Retention

\* the threshold taken ten seconds back instead of ten minutes
BeforeSeconds(age) == age > 10

\* the threshold taken one minute back instead of ten
BeforeMinute(age) == age > PollInterval

\* v.Before(threshold) with threshold := time.Now().Add(-10 * time.Minute), lines 196-198
Before(age) == age > Retention

\* a range loop that deletes nothing
EvictNothing(m) == m

\* the range loop of lines 197-202
Evict(m) == [k \in {j \in DOMAIN m : ~Before(m[j])} |-> m[k]]

\* a lookup that never finds the key
HasNever(m, k) == FALSE

\* _, ok := alredyChecked[p.Key], line 180
Has(m, k) == k \in DOMAIN m

\* alredyChecked[p.Key] = time.Now(), line 183
Mark(m, k) == [j \in DOMAIN m \cup {k} |-> IF j = k THEN 0 ELSE m[j]]

\* the listing taken from its end
ItemReversed(ps, i) == ps[Len(ps) + 1 - i]

\* p.Key of the i-th p of for _, p := range pastes, line 179
Item(ps, i) == ps[i]

\* ------------------------------------------------------------------ channels

\* ch <- v on an unbuffered channel: the sender waits in the channel's queue
Send(q, m) == Append(q, m)

\* the value a receive takes: that of the sender waiting longest
Recv(q) == Head(q)

\* a channel with a buffer: a send completes at once
SentAtOnce(q, who) == TRUE

\* the send of `who` has completed: a receiver took its value
Sent(q, who) == \A i \in 1..Len(q) : q[i].from # who

\* what p.fetch(ctx, keywords) returns, line 184: an error; or a paste, when
\* checkKeywords found a match in the body; or neither, when it found none
fetch ==
    { [err |-> TRUE, p2 |-> FALSE, status |-> FALSE],
      [err |-> FALSE, p2 |-> TRUE, status |-> TRUE],
      [err |-> FALSE, p2 |-> FALSE, status |-> FALSE] }

\* the output worker holds no paste
NoPaste == [from |-> "none", key |-> "none"]

\* ------------------------------------------------------------------ matcher

\* A body is a string, kept as the sequence of its pieces.  A piece is a letter,
\* a blank, a line feed, or a whole dotted quad: the digits and dots of
\* "10.5.5.5" are one piece.
Letters == {"p", "P"}
Quads == {"10.5.5.5", "1.1.1.1", "999.1.1.1"}
Alphabet == Letters \cup {" ", "\n"} \cup Quads

\* the numbers between the dots of a dotted quad
Octets(q) ==
    CASE q = "10.5.5.5" -> <<10, 5, 5, 5>>
      [] q = "1.1.1.1" -> <<1, 1, 1, 1>>
      [] q = "999.1.1.1" -> <<999, 1, 1, 1>>

\* the strings of at most n pieces of S
Strings(S, n) == UNION {[1..m -> S] : m \in 0..n}

\* the bodies p.fetch hands to checkKeywords.  Two dotted quads in a row are
\* left out: their digits and dots are one run, not the two quads.
Bodies ==
    {b \in Strings(Alphabet, MaxBody) :
        \A i \in 1..(Len(b) - 1) : ~(b[i] \in Quads /\ b[i + 1] \in Quads)}

nil == <<>>

\* the entries config.Keywords may hold, line 129
KeywordEntries ==
    { [Keyword |-> <<"p">>, Type |-> "string", Exceptions |-> <<>>],
      [Keyword |-> <<"p">>, Type |-> "string", Exceptions |-> << <<"P">> >>],
      [Keyword |-> <<"P">>, Type |-> "string", Exceptions |-> <<>>],
      [Keyword |-> <<"10.0.0.0/8">>, Type |-> "cidr", Exceptions |-> <<>>],
      [Keyword |-> <<"10.0.0.0/33">>, Type |-> "cidr", Exceptions |-> <<>>] }

\* the lists config.Keywords may hold
Configs == Strings(KeywordEntries, MaxKeywords)

\* \w of the regular expressions: letters and digits
WordChar(a) == ~(a \in {" ", "\n"})

\* a regular expression without \b: every position passes
BoundaryAnywhere(s, i) == TRUE

\* \b at position i of s: a word character on exactly one side
Boundary(s, i) ==
    (i > 1 /\ WordChar(s[i - 1])) # (i <= Len(s) /\ WordChar(s[i]))

\* (?i): letters match in either case
Fold(a) == IF a = "P" THEN "p" ELSE a

\* the positions where ^ of (?m) matches: the start of the text and after each line feed
LineStarts(s) == {i \in 1..(Len(s) + 1) : i = 1 \/ s[i - 1] = "\n"}

\* the first position from i on where $ of (?m) matches: before a line feed or at the end
LineEnd(s, i) ==
    CHOOSE e \in i..(Len(s) + 1) :
        /\ e = Len(s) + 1 \/ s[e] = "\n"
        /\ \A j \in i..(e - 1) : s[j] # "\n"

\* regexp.QuoteMeta(k.Keyword) matches at position i, letters in either case
KeywordAt(s, kw, i) ==
    /\ i + Len(kw) - 1 <= Len(s)
    /\ \A j \in 1..Len(kw) : Fold(s[i + j - 1]) = Fold(kw[j])

\* (?im)^(.*\b%s.*)$ matches the line that starts at st
LineMatches(s, kw, st) ==
    \E i \in st..LineEnd(s, st) :
        Boundary(s, i) /\ KeywordAt(s, kw, i) /\ i + Len(kw) <= LineEnd(s, st)

\* FindStringSubmatch of (?im)^(.*\b%s.*)$: the leftmost match; s1 is s[1]
FindLine(s, kw) ==
    LET hits == {st \in LineStarts(s) : LineMatches(s, kw, st)}
    IN  IF hits = {} THEN [ok |-> FALSE, s1 |-> nil]
        ELSE LET st == CHOOSE h \in hits : \A g \in hits : h <= g
             IN  [ok |-> TRUE, s1 |-> SubSeq(s, st, LineEnd(s, st) - 1)]

\* FindStringSubmatch of (\b(?:\d{1,3}\.){3}\d{1,3}\b): the leftmost match
FindQuad(s) ==
    LET hits == {i \in 1..Len(s) :
                    s[i] \in Quads /\ Boundary(s, i) /\ Boundary(s, i + 1)}
    IN  IF hits = {} THEN [ok |-> FALSE, s1 |-> nil]
        ELSE LET i == CHOOSE h \in hits : \A g \in hits : h <= g
             IN  [ok |-> TRUE, s1 |-> <<s[i]>>]

\* v.regexp.FindStringSubmatch(body), line 40
FindStringSubmatch(re, s) ==
    IF re.kind = "line" THEN FindLine(s, re.keyword) ELSE FindQuad(s)

\* strings.TrimSpace, line 41
TrimSpace(s) ==
    LET keep == {i \in 1..Len(s) : ~(s[i] \in {" ", "\n"})}
    IN  IF keep = {} THEN <<>>
        ELSE SubSeq(s, CHOOSE l \in keep : \A j \in keep : l <= j,
                       CHOOSE h \in keep : \A j \in keep : j <= h)

\* strings.Contains(s, x), line 69
Contains(s, x) ==
    \E i \in 1..(Len(s) - Len(x) + 1) : SubSeq(s, i, i + Len(x) - 1) = x

\* checkExceptions, lines 67-75
checkExceptions(s, exceptions) ==
    \E j \in 1..Len(exceptions) : Contains(s, exceptions[j])

\* net.ParseIP(match), line 44: nil unless every number is at most 255
ParseIP(match) ==
    IF Len(match) = 1 /\ match[1] \in Quads
          /\ \A i \in 1..4 : Octets(match[1])[i] <= 255
    THEN Octets(match[1])
    ELSE nil

\* net.ParseCIDR(k.Keyword), line 85
ParseCIDR(kw) ==
    IF kw = <<"10.0.0.0/8">>
    THEN [err |-> FALSE, n |-> [IP |-> <<10, 0, 0, 0>>, Bits |-> 8]]
    ELSE [err |-> TRUE, n |-> [IP |-> nil, Bits |-> 0]]

\* a network that holds every address
NetContainsAll(n, ip) == TRUE

\* v.ipNet.Contains(ip), line 50
NetContains(n, ip) == \A i \in 1..(n.Bits \div 8) : ip[i] = n.IP[i]

\* map m with m[k] = v
Put(m, k, v) == [j \in DOMAIN m \cup {k} |-> IF j = k THEN v ELSE m[j]]

EmptyMap == [j \in {} |-> nil]

\* parseKeywords, lines 77-106: the entries of k from the i-th on
RECURSIVE parseKeywordsFrom(_, _, _)
parseKeywordsFrom(k, i, kws) ==
    IF i > Len(k) THEN [err |-> FALSE, keywords |-> kws]
    ELSE IF k[i].Type = "cidr"
         THEN LET c == ParseCIDR(k[i].Keyword)
              IN  IF c.err THEN [err |-> TRUE, keywords |-> EmptyMap]
                  ELSE parseKeywordsFrom(k, i + 1,
                           Put(kws, k[i].Keyword,
                               [regexp |-> [kind |-> "quad", keyword |-> nil],
                                keywordType |-> "ip",
                                ipNet |-> c.n,
                                exceptions |-> k[i].Exceptions]))
         ELSE parseKeywordsFrom(k, i + 1,
                  Put(kws, k[i].Keyword,
                      [regexp |-> [kind |-> "line", keyword |-> k[i].Keyword],
                       keywordType |-> "string",
                       ipNet |-> [IP |-> nil, Bits |-> 0],
                       exceptions |-> k[i].Exceptions]))

parseKeywords(k) == parseKeywordsFrom(k, 1, EmptyMap)

NoneFound == [status |-> FALSE, found |-> EmptyMap]

\* an address that does not parse throws away what the rules before recorded
checkKeywordAborts(acc, b, k, v) ==
    LET s == FindStringSubmatch(v.regexp, b)
    IN  IF ~s.ok THEN acc
        ELSE LET match == TrimSpace(s.s1)
             IN  IF v.keywordType = "ip"
                 THEN IF ParseIP(match) = nil THEN NoneFound
                      ELSE IF NetContains(v.ipNet, ParseIP(match))
                           THEN [status |-> TRUE, found |-> Put(acc.found, k, match)]
                           ELSE acc
                 ELSE IF ~checkExceptions(match, v.exceptions)
                      THEN [status |-> TRUE, found |-> Put(acc.found, k, match)]
                      ELSE acc

\* the body of the range loop of checkKeywords, lines 39-61, for one k, v
checkKeyword(acc, b, k, v) ==
    LET s == FindStringSubmatch(v.regexp, b)
    IN  IF ~s.ok THEN acc
        ELSE LET match == TrimSpace(s.s1)
             IN  IF v.keywordType = "ip"
                 THEN IF ParseIP(match) = nil THEN acc
                      ELSE IF NetContains(v.ipNet, ParseIP(match))
                           THEN [status |-> TRUE, found |-> Put(acc.found, k, match)]
                           ELSE acc
                 ELSE IF ~checkExceptions(match, v.exceptions)
                      THEN [status |-> TRUE, found |-> Put(acc.found, k, match)]
                      ELSE acc

\* the orders in which for k, v := range *keywords may visit the map
Orders(S) == {o \in [1..Cardinality(S) -> S] : {o[i] : i \in DOMAIN o} = S}

\* checkKeywords, lines 35-65, the map visited in the given order from the i-th on
RECURSIVE rangeKeywords(_, _, _, _, _)
rangeKeywords(acc, b, kws, order, i) ==
    IF i > Len(order) THEN acc
    ELSE rangeKeywords(checkKeyword(acc, b, order[i], kws[order[i]]),
                       b, kws, order, i + 1)

checkKeywords(b, kws, order) == rangeKeywords(NoneFound, b, kws, order, 1)

\* ---------------------------------------------------------------------- Init

\* main() up to the for loop of line 164
MainInit ==
    /\ pc = "wait"
    /\ sinceCheck = PollInterval        \* var lastCheck time.Time: the zero time
    /\ sleepTime = 0
    /\ alredyChecked = [k \in {} |-> 0]
    /\ pastes = <<>>
    /\ idx = 1
    /\ chanError = <<>>
    /\ chanOutput = <<>>
    /\ outPc = "recv"
    /\ outP = NoPaste
    /\ errPc = "recv"
    /\ Mailonerror \in BOOLEAN
    /\ sinceList = -1
    /\ sinceFetch = -1
    /\ lastFetch = [k \in Keys |-> -1]
    /\ cycleFetches = [k \in Keys |-> 0]
    /\ cycleErrs = 0
    /\ cycleOuts = 0
    /\ listOk = TRUE
    /\ outLog = <<>>
    /\ errLog = <<>>
    /\ outRecvPos = 0
    /\ errRecvPos = 0
    /\ gapList = -1
    /\ gapFetch = -1
    /\ gapSame = -1
    /\ inOrder = TRUE

\* the pipeline, with the matcher left aside
Init ==
    /\ MainInit
    /\ body = <<>>
    /\ config = <<>>
    /\ keywords = EmptyMap
    /\ status = FALSE
    /\ found = EmptyMap
    /\ matchPc = "idle"

\* the matcher: any list of keywords and any body, nothing compiled yet
MatchInit ==
    /\ MainInit
    /\ ~Mailonerror
    /\ body \in Bodies
    /\ config \in Configs
    /\ keywords = EmptyMap
    /\ status = FALSE
    /\ found = EmptyMap
    /\ matchPc = "parse"

loopVars == <<pc, sleepTime, pastes, idx>>
chans == <<chanError, chanOutput>>
outVars == <<outPc, outP>>
matcher == <<body, config, keywords, status, found, matchPc>>
conf == <<Mailonerror, matcher>>
workers == <<outVars, errPc, conf>>
cycleHist == <<cycleFetches, cycleErrs, cycleOuts, listOk>>
gaps == <<gapList, gapFetch, gapSame>>
recvHist == <<outLog, errLog, outRecvPos, errRecvPos, inOrder>>
pipeline == <<clocks, loopVars, chans, outVars, errPc, Mailonerror, cycleHist, gaps,
              recvHist>>

\* -------------------------------------------------------------- control loop

\* lines 164-167: an iteration of the for loop starts
Wait ==
    /\ pc = "wait"
    /\ sleepTime' = Until(sinceCheck)
    /\ pc' = IF sleepTime' > 0 THEN "sleeping" ELSE "list"
    /\ cycleFetches' = [k \in Keys |-> 0]
    /\ cycleErrs' = 0
    /\ cycleOuts' = 0
    /\ outRecvPos' = 0
    /\ errRecvPos' = 0
    /\ UNCHANGED <<clocks, pastes, idx, chans, workers, listOk, gaps, outLog, errLog,
                   inOrder>>

\* time.Sleep(sleepTime), line 169: at least sleepTime
Sleep ==
    /\ pc = "sleeping"
    /\ Blocked(sleepTime)
    /\ pc' = "list"
    /\ UNCHANGED <<sleepTime, pastes, idx, chans, workers, cycleHist, gaps, recvHist>>

\* lines 172-173: lastCheck = time.Now() and the call of fetchPasteList
List ==
    /\ pc = "list"
    /\ sinceCheck' = 0
    /\ gapList' = sinceList
    /\ sinceList' = 0
    /\ sleepTime' = 0
    /\ pc' = "listing"
    /\ UNCHANGED <<alredyChecked, sinceFetch, lastFetch, pastes, idx, chans, workers,
                   cycleHist, gapFetch, gapSame, recvHist>>

\* fetchPasteList returns an error: lines 174-175, up to the send
ListFails ==
    /\ pc = "listing"
    /\ Blocked(0)
    /\ chanError' = Send(chanError, [from |-> "main", kind |-> "fetchPasteList"])
    /\ errLog' = Append(errLog, [kind |-> "fetchPasteList", pos |-> 0])
    /\ cycleErrs' = cycleErrs + 1
    /\ listOk' = FALSE
    /\ pc' = "listErr"
    /\ UNCHANGED <<sleepTime, pastes, idx, chanOutput, workers, cycleFetches, cycleOuts,
                   gaps, outLog, outRecvPos, errRecvPos, inOrder>>

\* the send of line 175 completes and, without the continue, the loop goes on
ListErrSentNoContinue ==
    /\ pc = "listErr"
    /\ Sent(chanError, "main")
    /\ Blocked(0)
    /\ pc' = "item"
    /\ UNCHANGED <<sleepTime, pastes, idx, chans, workers, cycleHist, gaps, recvHist>>

\* the send of line 175 completes; continue, line 176
ListErrSent ==
    /\ pc = "listErr"
    /\ Sent(chanError, "main")
    /\ Blocked(0)
    /\ pc' = "wait"
    /\ UNCHANGED <<sleepTime, pastes, idx, chans, workers, cycleHist, gaps, recvHist>>

\* fetchPasteList returns a listing: line 173, and the range loop starts
ListReturns ==
    /\ pc = "listing"
    /\ Blocked(0)
    /\ \E ps \in Listings : pastes' = ps
    /\ idx' = 1
    /\ listOk' = TRUE
    /\ pc' = "item"
    /\ UNCHANGED <<sleepTime, chans, workers, cycleFetches, cycleErrs, cycleOuts, gaps,
                   recvHist>>

\* lines 179-181: the next item is in the map already
Skip ==
    /\ pc = "item"
    /\ idx <= Len(pastes)
    /\ Has(alredyChecked, Item(pastes, idx))
    /\ idx' = idx + 1
    /\ UNCHANGED <<clocks, pc, sleepTime, pastes, chans, workers, cycleHist, gaps,
                   recvHist>>

\* lines 182-184: the next item is new: it is marked and p.fetch is called
Fetch ==
    /\ pc = "item"
    /\ idx <= Len(pastes)
    /\ LET key == Item(pastes, idx)
       IN  /\ ~Has(alredyChecked, key)
           /\ alredyChecked' = Mark(alredyChecked, key)
           /\ gapSame' = lastFetch[key]
           /\ lastFetch' = [lastFetch EXCEPT ![key] = 0]
           /\ cycleFetches' = [cycleFetches EXCEPT ![key] = @ + 1]
    /\ gapFetch' = sinceFetch
    /\ sinceFetch' = 0
    /\ pc' = "fetching"
    /\ UNCHANGED <<sinceCheck, sinceList, sleepTime, pastes, idx, chans, workers,
                   cycleErrs, cycleOuts, listOk, gapList, recvHist>>

\* p.fetch returns an error and the mark of line 183 is taken back
FetchFailsUnmarks ==
    /\ pc = "fetching"
    /\ \E r \in fetch : r.err
    /\ \E d \in Elapsed :
          /\ sinceCheck' = Later(sinceCheck, d, PollInterval)
          /\ alredyChecked' =
                 Aged([k \in DOMAIN alredyChecked \ {Item(pastes, idx)} |-> alredyChecked[k]], d)
          /\ sinceList' = Later(sinceList, d, PollInterval)
          /\ sinceFetch' = Later(sinceFetch, d, ItemDelay)
          /\ lastFetch' = [k \in Keys |-> Later(lastFetch[k], d, Retention + 1)]
    /\ chanError' = Send(chanError, [from |-> "main", kind |-> "fetch"])
    /\ errLog' = Append(errLog, [kind |-> "fetch", pos |-> idx])
    /\ cycleErrs' = cycleErrs + 1
    /\ pc' = "fetchErr"
    /\ UNCHANGED <<sleepTime, pastes, idx, chanOutput, workers, cycleFetches, cycleOuts,
                   listOk, gaps, outLog, outRecvPos, errRecvPos, inOrder>>

\* p.fetch returns an error: lines 185-186, up to the send
FetchFails ==
    /\ pc = "fetching"
    /\ \E r \in fetch : r.err
    /\ Blocked(0)
    /\ chanError' = Send(chanError, [from |-> "main", kind |-> "fetch"])
    /\ errLog' = Append(errLog, [kind |-> "fetch", pos |-> idx])
    /\ cycleErrs' = cycleErrs + 1
    /\ pc' = "fetchErr"
    /\ UNCHANGED <<sleepTime, pastes, idx, chanOutput, workers, cycleFetches, cycleOuts,
                   listOk, gaps, outLog, outRecvPos, errRecvPos, inOrder>>

\* the send of line 186 completes and the range loop is left
FetchErrSentBreaks ==
    /\ pc = "fetchErr"
    /\ Sent(chanError, "main")
    /\ Blocked(0)
    /\ pastes' = <<>>
    /\ idx' = 1
    /\ pc' = "wait"
    /\ UNCHANGED <<sleepTime, chans, workers, cycleHist, gaps, recvHist>>

\* the send of line 186 completes
FetchErrSent ==
    /\ pc = "fetchErr"
    /\ Sent(chanError, "main")
    /\ Blocked(0)
    /\ pc' = "delay"
    /\ UNCHANGED <<sleepTime, pastes, idx, chans, workers, cycleHist, gaps, recvHist>>

\* p.fetch returns a paste that matched: lines 187-188, up to the send
FetchMatches ==
    /\ pc = "fetching"
    /\ Blocked(0)
    /\ \E r \in fetch :
          /\ ~r.err /\ r.p2
          /\ chanOutput' = Send(chanOutput, [from |-> "main", key |-> Item(pastes, idx),
                                             status |-> r.status])
    /\ outLog' = Append(outLog, [key |-> pastes[idx], pos |-> idx])
    /\ cycleOuts' = cycleOuts + 1
    /\ pc' = "dispatch"
    /\ UNCHANGED <<sleepTime, pastes, idx, chanError, workers, cycleFetches, cycleErrs,
                   listOk, gaps, errLog, outRecvPos, errRecvPos, inOrder>>

\* the send of line 188 completes
Dispatched ==
    /\ pc = "dispatch"
    /\ Sent(chanOutput, "main")
    /\ Blocked(0)
    /\ pc' = "delay"
    /\ UNCHANGED <<sleepTime, pastes, idx, chans, workers, cycleHist, gaps, recvHist>>

\* p.fetch returns nil, nil and the nil paste is sent all the same
FetchNoMatchDispatches ==
    /\ pc = "fetching"
    /\ Blocked(0)
    /\ \E r \in fetch :
          /\ ~r.err /\ ~r.p2
          /\ chanOutput' = Send(chanOutput, [from |-> "main", key |-> Item(pastes, idx),
                                             status |-> r.status])
    /\ pc' = "dispatch"
    /\ UNCHANGED <<sleepTime, pastes, idx, chanError, workers, cycleHist, gaps, recvHist>>

\* p.fetch returns nil, nil: no match, line 187
FetchNoMatch ==
    /\ pc = "fetching"
    /\ \E r \in fetch : ~r.err /\ ~r.p2
    /\ Blocked(0)
    /\ pc' = "delay"
    /\ UNCHANGED <<sleepTime, pastes, idx, chans, workers, cycleHist, gaps, recvHist>>

\* on to the next item without the sleep of line 191
DelayNoSleep ==
    /\ pc = "delay"
    /\ Blocked(0)
    /\ idx' = idx + 1
    /\ pc' = "item"
    /\ UNCHANGED <<sleepTime, pastes, chans, workers, cycleHist, gaps, recvHist>>

\* time.Sleep(1 * time.Second), line 191, and on to the next item
Delay ==
    /\ pc = "delay"
    /\ Blocked(ItemDelay)
    /\ idx' = idx + 1
    /\ pc' = "item"
    /\ UNCHANGED <<sleepTime, pastes, chans, workers, cycleHist, gaps, recvHist>>

\* lines 194-202: the range loop is over; the old entries are deleted
Cleanup ==
    /\ pc = "item"
    /\ idx > Len(pastes)
    /\ alredyChecked' = Evict(alredyChecked)
    /\ pastes' = <<>>
    /\ idx' = 1
    /\ pc' = "wait"
    /\ UNCHANGED <<sinceCheck, sinceList, sinceFetch, lastFetch, sleepTime, chans,
                   workers, cycleHist, gaps, recvHist>>

Main ==
    \/ Wait \/ Sleep \/ List \/ ListFails \/ ListErrSent \/ ListReturns
    \/ Skip \/ Fetch \/ FetchFails \/ FetchErrSent \/ FetchMatches \/ Dispatched
    \/ FetchNoMatch \/ Delay \/ Cleanup

\* ------------------------------------------------------------- output worker

\* for p := range chanOutput, line 143
OutRecv ==
    /\ outPc = "recv"
    /\ chanOutput # <<>>
    /\ outP' = Recv(chanOutput)
    /\ chanOutput' = Tail(chanOutput)
    /\ inOrder' = (inOrder /\ outLog # <<>> /\ outP'.key = Head(outLog).key
                            /\ Head(outLog).pos > outRecvPos)
    /\ outLog' = IF outLog = <<>> THEN outLog ELSE Tail(outLog)
    /\ outRecvPos' = IF outLog = <<>> THEN outRecvPos ELSE Head(outLog).pos
    /\ outPc' = "send"
    /\ UNCHANGED <<clocks, loopVars, chanError, errPc, conf, cycleHist, gaps,
                   errLog, errRecvPos>>

\* p.sendPasteMessage(c) returns nil, lines 145-146
OutDelivered ==
    /\ outPc = "send"
    /\ outPc' = "recv"
    /\ outP' = NoPaste
    /\ UNCHANGED <<clocks, loopVars, chans, errPc, conf, cycleHist, gaps,
                   recvHist>>

\* p.sendPasteMessage(c) returns an error: lines 145-147, up to the send
OutFails ==
    /\ outPc = "send"
    /\ chanError' = Send(chanError, [from |-> "out", kind |-> "sendPasteMessage"])
    /\ outPc' = "err"
    /\ UNCHANGED <<clocks, loopVars, chanOutput, outP, errPc, conf, cycleHist,
                   gaps, recvHist>>

\* the send of line 147 completes and the delivery is tried again
OutErrSentRetries ==
    /\ outPc = "err"
    /\ Sent(chanError, "out")
    /\ outPc' = "send"
    /\ UNCHANGED <<clocks, loopVars, chans, outP, errPc, conf, cycleHist, gaps,
                   recvHist>>

\* the send of line 147 completes
OutErrSent ==
    /\ outPc = "err"
    /\ Sent(chanError, "out")
    /\ outPc' = "recv"
    /\ outP' = NoPaste
    /\ UNCHANGED <<clocks, loopVars, chans, errPc, conf, cycleHist, gaps,
                   recvHist>>

Output == OutRecv \/ OutDelivered \/ OutFails \/ OutErrSent

\* -------------------------------------------------------------- error worker

\* the error worker mails every error, whatever c.Mailonerror says
ErrRecvAlwaysMails ==
    /\ errPc = "recv"
    /\ chanError # <<>>
    /\ LET err == Recv(chanError)
       IN  IF err.from = "main"
           THEN /\ inOrder' = (inOrder /\ errLog # <<>> /\ err.kind = Head(errLog).kind
                                       /\ Head(errLog).pos >= errRecvPos)
                /\ errLog' = IF errLog = <<>> THEN errLog ELSE Tail(errLog)
                /\ errRecvPos' = IF errLog = <<>> THEN errRecvPos ELSE Head(errLog).pos
           ELSE UNCHANGED <<inOrder, errLog, errRecvPos>>
    /\ chanError' = Tail(chanError)
    /\ errPc' = "mail"
    /\ UNCHANGED <<clocks, loopVars, chanOutput, outVars, conf, cycleHist, gaps,
                   outLog, outRecvPos>>

\* for err := range chanError, and log.Printf: lines 153-155
ErrRecv ==
    /\ errPc = "recv"
    /\ chanError # <<>>
    /\ LET err == Recv(chanError)
       IN  IF err.from = "main"
           THEN /\ inOrder' = (inOrder /\ errLog # <<>> /\ err.kind = Head(errLog).kind
                                       /\ Head(errLog).pos >= errRecvPos)
                /\ errLog' = IF errLog = <<>> THEN errLog ELSE Tail(errLog)
                /\ errRecvPos' = IF errLog = <<>> THEN errRecvPos ELSE Head(errLog).pos
           ELSE UNCHANGED <<inOrder, errLog, errRecvPos>>
    /\ chanError' = Tail(chanError)
    /\ errPc' = IF Mailonerror THEN "mail" ELSE "recv"
    /\ UNCHANGED <<clocks, loopVars, chanOutput, outVars, conf, cycleHist, gaps,
                   outLog, outRecvPos>>

\* the error worker reports the failure of sendErrorMessage on chanError, the
\* channel it alone receives from, and waits there
ErrMailedReports ==
    /\ errPc = "mail"
    /\ chanError' = Send(chanError, [from |-> "err", kind |-> "sendErrorMessage"])
    /\ errPc' = "err"
    /\ UNCHANGED <<clocks, loopVars, chanOutput, outVars, conf, cycleHist, gaps,
                   recvHist>>

\* sendErrorMessage(c, err) returns, with an error or without: lines 156-159
ErrMailed ==
    /\ errPc = "mail"
    /\ errPc' = "recv"
    /\ UNCHANGED <<clocks, loopVars, chans, outVars, conf, cycleHist, gaps,
                   recvHist>>

Errors == ErrRecv \/ ErrMailed

\* ------------------------------------------------------------------ matcher

\* keywords, err := parseKeywords(config.Keywords), lines 129-132
ParseKeywords ==
    /\ matchPc = "parse"
    /\ LET r == parseKeywords(config)
       IN  IF r.err
           THEN matchPc' = "fatal" /\ keywords' = keywords
           ELSE matchPc' = "check" /\ keywords' = r.keywords
    /\ UNCHANGED <<pipeline, body, config, status, found>>

\* checkKeywords(body, keywords), lines 35-65, called by p.fetch
CheckKeywords ==
    /\ matchPc = "check"
    /\ \E order \in Orders(DOMAIN keywords) :
          LET r == checkKeywords(body, keywords, order)
          IN  status' = r.status /\ found' = r.found
    /\ matchPc' = "done"
    /\ UNCHANGED <<pipeline, body, config, keywords>>

\* ------------------------------------------------------------- specification

Next == Main \/ Output \/ Errors

Spec == Init /\ [][Next]_vars

\* the Go scheduler runs every goroutine that can run
FairSpec == Spec /\ WF_vars(Main) /\ WF_vars(Output) /\ WF_vars(Errors)

MatchNext == ParseKeywords \/ CheckKeywords

\* parseKeywords and checkKeywords on their own, for any config and any body
MatchSpec == MatchInit /\ [][MatchNext]_vars

\* ---------------------------------------------------------------- properties

\* steps of the control loop, by the positions they lead from and to
FetchStep == pc = "item" /\ pc' = "fetching"
EvictStep == pc = "item" /\ pc' = "wait"
AtItem == pc = "item" /\ idx <= Len(pastes)
ListFailure == [from |-> "main", kind |-> "fetchPasteList"]
FetchFailure == [from |-> "main", kind |-> "fetch"]
\* map n holds the entries of map m, with the times m stores: time alone passed
SameEntries(m, n) ==
    /\ DOMAIN n = DOMAIN m
    /\ \E d \in {0} \cup {n[k] - m[k] : k \in DOMAIN m} : n = Aged(m, d)
\* the sends of the control loop waiting in a channel's queue
FromMain(q) == Cardinality({i \in 1..Len(q) : q[i].from = "main"})

\* C1: p.fetch is called for a listed item only if its key is not in
\* alredyChecked when the item is examined, the key is in the map (marked at
\* this very time) once the call is issued, an item whose key is in the map is
\* passed over without a call, and no key is fetched twice in one iteration,
\* also when the listing holds it twice.
C1_FetchOnlyUnseen ==
    [][ /\ FetchStep => /\ ~(pastes[idx] \in DOMAIN alredyChecked)
                        /\ pastes[idx] \in DOMAIN alredyChecked'
                        /\ alredyChecked'[pastes[idx]] = 0
                        /\ cycleFetches'[pastes[idx]] = cycleFetches[pastes[idx]] + 1
        /\ (AtItem /\ pastes[idx] \in DOMAIN alredyChecked) => pc' = "item"
        /\ ~FetchStep => cycleFetches' = cycleFetches \/ (pc = "wait" /\ pc' # pc)
        /\ \A k \in Keys : cycleFetches'[k] <= 1 ]_vars

\* the listing holds one key twice; the first was fetched, the second passed over
C1_Witness ==
    /\ pc = "item"
    /\ Len(pastes) = 2
    /\ pastes[1] = pastes[2]
    /\ idx = 3
    /\ cycleFetches[pastes[1]] = 1

\* C2: two p.fetch calls for the same key are more than the retention of ten
\* minutes apart, whatever listings, list failures and fetch failures occur.
C2_NoRefetchInRetention == gapSame = -1 \/ gapSame > Retention

\* a key is fetched a second time
C2_Witness == pc = "fetching" /\ gapSame > Retention

\* C3: when fetchPasteList fails, the iteration puts exactly one entry, the
\* list failure, on chanError, calls p.fetch for no item, neither adds an entry
\* to alredyChecked nor deletes one nor changes a stored time, and goes back to
\* the start of the for loop.
C3_ListFailure ==
    [][ /\ (pc = "listing" /\ pc' = "listErr") =>
              /\ chanError' = Append(chanError, ListFailure)
              /\ cycleErrs' = 1
        /\ pc = "listErr" =>
              /\ pc' \in {"listErr", "wait"}
              /\ cycleErrs' = 1
              /\ FromMain(chanError') <= FromMain(chanError)
        /\ pc \in {"wait", "sleeping", "list", "listing", "listErr"} =>
              /\ SameEntries(alredyChecked, alredyChecked')
              /\ pc' # "wait" => \A k \in Keys : cycleFetches'[k] = 0
        ]_vars

\* a list failure was reported and the loop is back at its start, the map not empty
C3_Witness ==
    /\ pc = "wait"
    /\ ~listOk
    /\ cycleErrs = 1
    /\ DOMAIN alredyChecked # {}
    /\ chanError = <<>>

\* C4: when p.fetch fails for an item, exactly one entry is put on chanError
\* for it, and the loop goes on: after the delay it examines the next item of
\* the same listing, and so every remaining one in order, and the eviction runs
\* only when the listing is through.
C4_FetchFailureGoesOn ==
    [][ /\ (pc = "fetching" /\ pc' = "fetchErr") =>
              /\ chanError' = Append(chanError, FetchFailure)
              /\ cycleErrs' = cycleErrs + 1
              /\ idx' = idx /\ pastes' = pastes
        /\ pc = "fetchErr" =>
              /\ pc' \in {"fetchErr", "delay"}
              /\ FromMain(chanError') <= FromMain(chanError)
              /\ cycleErrs' = cycleErrs
              /\ idx' = idx /\ pastes' = pastes
        /\ pc = "delay" =>
              /\ pastes' = pastes
              /\ \/ pc' = "delay" /\ idx' = idx
                 \/ pc' = "item" /\ idx' = idx + 1
        /\ AtItem => /\ pc' \in {"item", "fetching"}
                     /\ pastes' = pastes
                     /\ idx' \in {idx, idx + 1}
        /\ EvictStep => idx = Len(pastes) + 1
        ]_vars

\* the fetch of the first item failed and the second item is being examined
C4_Witness ==
    /\ pc = "item"
    /\ Len(pastes) = 2
    /\ idx = 2
    /\ cycleErrs = 1
    /\ cycleFetches[pastes[1]] = 1

\* a goroutine waits on a channel and cannot go on
MainBlocked ==
    \/ pc \in {"listErr", "fetchErr"} /\ ~Sent(chanError, "main")
    \/ pc = "dispatch" /\ ~Sent(chanOutput, "main")
OutputBlocked ==
    \/ outPc = "recv" /\ chanOutput = <<>>
    \/ outPc = "err" /\ ~Sent(chanError, "out")
ErrorsBlocked == errPc = "recv" /\ chanError = <<>>

\* C5: with every collaborator call returning and every goroutine that can run
\* running, the control loop calls fetchPasteList again and again, whatever
\* fails; and the control loop and the two workers are never all three waiting
\* on the channels.
C5_LoopNeverStops ==
    /\ []<>(pc = "listing")
    /\ [](~(MainBlocked /\ OutputBlocked /\ ErrorsBlocked))

\* the control loop waits to hand over a paste while the output worker waits to
\* report a failed delivery and the error worker is busy mailing an error
C5_Witness ==
    /\ pc = "dispatch" /\ ~Sent(chanOutput, "main")
    /\ outPc = "err" /\ ~Sent(chanError, "out")
    /\ errPc = "mail"

\* C6: two fetchPasteList calls in a row are at least one minute apart, after a
\* failed call and after an iteration that fetched nothing too; and when the
\* last call is a minute or more back the loop does not sleep: it calls
\* fetchPasteList with no time passing.
C6_PollInterval ==
    [][ /\ (pc = "list" /\ pc' = "listing") =>
              /\ sinceList = -1 \/ sinceList >= PollInterval
              /\ gapList' = sinceList
        /\ (pc = "wait" /\ (sinceList = -1 \/ sinceList >= PollInterval)) =>
              /\ pc' \in {"wait", "list"}
              /\ alredyChecked' = alredyChecked
        /\ (pc = "wait" /\ sinceList >= 0 /\ sinceList < PollInterval) =>
              /\ pc' \in {"wait", "sleeping"}
        /\ pc = "list" => alredyChecked' = alredyChecked
        /\ gapList' = -1 \/ gapList' >= PollInterval
        ]_vars

\* the loop did not sleep, the last fetchPasteList call being a minute or more back
C6_Witness ==
    /\ pc = "list"
    /\ sleepTime <= 0
    /\ sinceList >= PollInterval

\* C7: two p.fetch calls in a row, of one iteration or of two, are at least one
\* second apart: each is followed by the sleep of line 191.
C7_FetchesApart == gapFetch = -1 \/ gapFetch >= ItemDelay

\* both items of a listing are fetched, the second after the sleep
C7_Witness ==
    /\ pc = "fetching"
    /\ idx = 2
    /\ cycleFetches[pastes[1]] = 1
    /\ alredyChecked[pastes[1]] = ItemDelay
    /\ gapFetch = ItemDelay

\* C8, as the claim states it: no entry of alredyChecked is older than retention
\* plus one poll interval.
C8_BoundedStaleness ==
    \A k \in DOMAIN alredyChecked : alredyChecked[k] <= Retention + PollInterval

\* C8, amended: an entry is deleted by the first eviction pass that runs once
\* it is older than the retention: when an iteration whose fetchPasteList call
\* succeeded is over, no entry is older than ten minutes.
C8_NoneOldAfterEviction ==
    (pc = "wait" /\ listOk) =>
        \A k \in DOMAIN alredyChecked : alredyChecked[k] <= Retention

\* an eviction pass is over: it deleted an old entry and kept a young one
C8_Witness ==
    /\ pc = "wait" /\ listOk
    /\ \E k \in Keys : k \notin DOMAIN alredyChecked /\ lastFetch[k] > Retention
    /\ \E k \in DOMAIN alredyChecked : alredyChecked[k] < Retention

\* C9: passing over an item whose key is in alredyChecked leaves the map as it
\* is; an entry stays, with the time stored for it, in every step but an
\* eviction pass that finds it older than the retention; that pass deletes it,
\* and deletes no entry that is not older than the retention.
C9_SeenSet ==
    [][ /\ (AtItem /\ pastes[idx] \in DOMAIN alredyChecked) =>
              alredyChecked' = alredyChecked
        /\ \A k \in DOMAIN alredyChecked :
              /\ k \notin DOMAIN alredyChecked' =>
                    EvictStep /\ alredyChecked[k] > Retention
              /\ k \in DOMAIN alredyChecked' => alredyChecked'[k] >= alredyChecked[k]
        /\ EvictStep =>
              \A k \in DOMAIN alredyChecked :
                 IF alredyChecked[k] > Retention
                 THEN k \notin DOMAIN alredyChecked'
                 ELSE k \in DOMAIN alredyChecked' /\ alredyChecked'[k] = alredyChecked[k]
        ]_vars

\* an eviction pass is over that found an entry exactly ten minutes old and kept it
C9_Witness ==
    /\ pc = "wait" /\ listOk
    /\ \E k \in DOMAIN alredyChecked : alredyChecked[k] = Retention

\* C10: every paste the output worker receives is the oldest one the control
\* loop sent and no worker received yet, and the pastes of one listing arrive
\* in the order of the listing; every error of the control loop the error worker
\* receives is the oldest one the control loop sent and no worker received yet.
C10_InOrder == inOrder

\* both items of a listing matched and the output worker has received both
C10_Witness ==
    /\ cycleOuts = 2
    /\ outRecvPos = 2
    /\ outLog = <<>>
    /\ outPc = "send"

\* the senders of the values waiting in a channel's queue
Senders(q) == {q[i].from : i \in 1..Len(q)}

\* C11, as the claim states it: the control loop is the only goroutine that
\* sends on chanOutput and the only one that sends on chanError.
C11_SingleProducer ==
    /\ Senders(chanOutput) \subseteq {"main"}
    /\ Senders(chanError) \subseteq {"main"}

\* C11, amended: chanOutput has one sender, the control loop, and one receiver,
\* the output worker; chanError has one receiver, the error worker, and two
\* senders, the control loop and the output worker.
C11_ProducersConsumers ==
    [][ /\ Senders(chanOutput') \subseteq {"main"}
        /\ Senders(chanError') \subseteq {"main", "out"}
        /\ Len(chanOutput') > Len(chanOutput) => pc' # pc /\ outPc' = outPc
        /\ Len(chanError') > Len(chanError) =>
              /\ errPc' = errPc
              /\ IF chanError'[Len(chanError')].from = "main"
                 THEN pc' # pc /\ outPc' = outPc
                 ELSE outPc = "send" /\ outPc' = "err" /\ pc' = pc
        /\ Len(chanOutput') < Len(chanOutput) =>
              outPc = "recv" /\ outPc' = "send" /\ pc' = pc /\ errPc' = errPc
        /\ Len(chanError') < Len(chanError) =>
              errPc = "recv" /\ pc' = pc /\ outPc' = outPc
        ]_vars

\* the control loop and the output worker both wait in a send on chanError
C11_Witness == Senders(chanError) = {"main", "out"}

\* the sends of the output worker waiting in chanError
FromOut(q) == Cardinality({i \in 1..Len(q) : q[i].from = "out"})

\* C12: every paste the control loop sends on chanOutput is received by the
\* output worker, which calls sendPasteMessage for it exactly once; a call that
\* fails puts exactly one error on chanError; the worker never calls
\* sendPasteMessage again for that paste and goes back to receiving the next.
C12_OneDeliveryPerMatch ==
    /\ [][ /\ (outPc' = "send" /\ outPc # "send") =>
                 /\ outPc = "recv"
                 /\ outLog # <<>>
                 /\ outP'.key = Head(outLog).key
                 /\ outLog' = Tail(outLog)
           /\ Len(outLog') < Len(outLog) => outPc = "recv" /\ outPc' = "send"
           /\ outPc = "send" =>
                 \/ outPc' = "send" /\ outP' = outP /\ FromOut(chanError') = 0
                 \/ outPc' = "recv" /\ FromOut(chanError') = 0
                 \/ outPc' = "err" /\ outP' = outP
                      /\ chanError' = Append(chanError, [from |-> "out",
                                                         kind |-> "sendPasteMessage"])
           /\ outPc = "err" => outPc' \in {"err", "recv"} /\ FromOut(chanError') <= 1
           /\ outPc = "recv" => FromOut(chanError') = 0
           ]_vars
    /\ (outLog # <<>> \/ outPc = "err") ~> (outLog = <<>> /\ outPc # "err")

\* the output worker waits to report a failed delivery, the error worker has
\* not taken the report yet, and the control loop already holds the next match
C12_Witness ==
    /\ outPc = "err"
    /\ chanError = <<[from |-> "out", kind |-> "sendPasteMessage"]>>
    /\ errPc = "recv"
    /\ pc = "dispatch"
    /\ Len(outLog) = 1

\* C13: every error sent on chanError, by the control loop or by the output
\* worker, is received and logged by the error worker, once; sendErrorMessage
\* is called for it exactly when c.Mailonerror is set; and the error worker
\* itself never sends on chanError, whatever sendErrorMessage returns.
C13_ErrorsLoggedOnce ==
    /\ [][ /\ Len(chanError') < Len(chanError) =>
                 /\ errPc = "recv"
                 /\ chanError' = Tail(chanError)
                 /\ errPc' = (IF Mailonerror THEN "mail" ELSE "recv")
           /\ errPc = "mail" =>
                 /\ Mailonerror
                 /\ errPc' \in {"mail", "recv"}
                 /\ Len(chanError') >= Len(chanError)
           /\ (errPc = "recv" /\ errPc' = "mail") => chanError' = Tail(chanError)
           /\ Senders(chanError') \subseteq {"main", "out"}
           /\ FromMain(chanError') <= 1
           ]_vars
    /\ (chanError # <<>>) ~> (chanError = <<>>)

\* sendErrorMessage runs for one error while the next one waits in chanError
C13_Witness ==
    /\ Mailonerror
    /\ errPc = "mail"
    /\ Senders(chanError) = {"main"}
    /\ pc = "fetchErr"

\* ------------------------------------------------------ properties: matcher

\* the line of b that starts at st, and that line without the blanks around it
LineFrom(b, st) == SubSeq(b, st, LineEnd(b, st) - 1)
Trimmed(l) ==
    IF \A i \in 1..Len(l) : l[i] = " " THEN <<>>
    ELSE SubSeq(l, CHOOSE i \in 1..Len(l) : l[i] # " " /\ \A j \in 1..(i - 1) : l[j] = " ",
                   CHOOSE i \in 1..Len(l) : l[i] # " " /\ \A j \in (i + 1)..Len(l) : l[j] = " ")
\* kw occurs in l from position i on, letters in either case
OccursAt(l, kw, i) ==
    /\ i + Len(kw) - 1 <= Len(l)
    /\ \A j \in 1..Len(kw) : l[i + j - 1] = kw[j]
                                \/ {l[i + j - 1], kw[j]} \subseteq Letters
\* l holds x as it is written
Holds(l, x) == \E i \in 1..(Len(l) + 1) : i + Len(x) - 1 <= Len(l)
                                          /\ \A j \in 1..Len(x) : l[i + j - 1] = x[j]
HoldsOneOf(l, xs) == \E n \in 1..Len(xs) : Holds(l, xs[n])
\* the lines of b that hold kw anywhere, and those that hold it where a word starts
KeywordLines(b, kw) ==
    {st \in LineStarts(b) : \E i \in 1..Len(LineFrom(b, st)) : OccursAt(LineFrom(b, st), kw, i)}
KeywordWordLines(b, kw) ==
    {st \in LineStarts(b) :
        \E i \in 1..Len(LineFrom(b, st)) :
            /\ OccursAt(LineFrom(b, st), kw, i)
            /\ i = 1 \/ LineFrom(b, st)[i - 1] = " "}
LiteralRules == {k \in DOMAIN keywords : keywords[k].keywordType = "string"}
CidrRules == {k \in DOMAIN keywords : keywords[k].keywordType = "ip"}

\* C14, as the claim states it: for every literal rule, when some line of the
\* body holds the keyword, in either case and anywhere in the line, and holds
\* none of the rule's exceptions, checkKeywords records a match for the rule:
\* such a line, trimmed.
C14_EveryKeywordLineMatches ==
    matchPc = "done" =>
        \A k \in LiteralRules :
            LET good == {st \in KeywordLines(body, k) :
                            ~HoldsOneOf(LineFrom(body, st), keywords[k].exceptions)}
            IN  good # {} =>
                    /\ k \in DOMAIN found
                    /\ \E st \in good : found[k] = Trimmed(LineFrom(body, st))

\* C14, amended: for every literal rule only the first line of the body that
\* holds the keyword, in either case, at the start of a word counts.  A match
\* is recorded, as that line trimmed, exactly when there is such a line and it
\* holds none of the rule's exceptions as written.
C14_FirstKeywordLineDecides ==
    matchPc = "done" =>
        \A k \in LiteralRules :
            LET hits == KeywordWordLines(body, k)
            IN  IF hits = {} THEN ~(k \in DOMAIN found)
                ELSE LET first == CHOOSE st \in hits : \A o \in hits : st <= o
                         line == Trimmed(LineFrom(body, first))
                     IN  IF HoldsOneOf(line, keywords[k].exceptions)
                         THEN ~(k \in DOMAIN found)
                         ELSE k \in DOMAIN found /\ found[k] = line

\* the first line holds the keyword and an exception, the second the keyword
\* alone: nothing is recorded for the rule
C14_Witness ==
    /\ matchPc = "done"
    /\ body = <<"P", "\n", "p">>
    /\ <<"p">> \in LiteralRules
    /\ keywords[<<"p">>].exceptions = << <<"P">> >>
    /\ ~(<<"p">> \in DOMAIN found)

\* the dotted quads of b that stand as words of their own
QuadsOf(b) ==
    {i \in 1..Len(b) : /\ b[i] \in Quads
                       /\ i = 1 \/ b[i - 1] \in {" ", "\n"}
                       /\ i = Len(b) \/ b[i + 1] \in {" ", "\n"}}
IsAddress(q) == \A i \in 1..4 : Octets(q)[i] \in 0..255
InNetwork(q, n) == \A i \in 1..4 : 8 * i <= n.Bits => Octets(q)[i] = n.IP[i]

\* C15, as the claim states it: for every CIDR rule, checkKeywords records a
\* match exactly when some dotted quad of the body, wherever it stands among
\* the others, is an address inside the rule's network.
C15_AnyQuadMatches ==
    matchPc = "done" =>
        \A k \in CidrRules :
            k \in DOMAIN found <=>
                \E i \in QuadsOf(body) :
                    IsAddress(body[i]) /\ InNetwork(body[i], keywords[k].ipNet)

\* C15, amended: for every CIDR rule only the first dotted quad of the body
\* counts.  A match is recorded, as that quad, exactly when there is one, it is
\* an address, and the address is inside the rule's network; a first quad that
\* is no address or lies outside leaves the rule without a match, whatever
\* quads follow, and checkKeywords returns all the same.
C15_FirstQuadDecides ==
    /\ matchPc = "check" => ENABLED CheckKeywords
    /\ matchPc = "done" =>
        \A k \in CidrRules :
            LET quads == QuadsOf(body)
            IN  IF quads = {} THEN ~(k \in DOMAIN found)
                ELSE LET first == CHOOSE i \in quads : \A o \in quads : i <= o
                     IN  IF IsAddress(body[first])
                              /\ InNetwork(body[first], keywords[k].ipNet)
                         THEN k \in DOMAIN found /\ found[k] = <<body[first]>>
                         ELSE ~(k \in DOMAIN found)

\* an address inside the network follows a quad that is no address: no match
C15_Witness ==
    /\ matchPc = "done"
    /\ body = <<"999.1.1.1", " ", "10.5.5.5">>
    /\ CidrRules # {}
    /\ found = EmptyMap
    /\ ~status

\* C16: what checkKeywords records for a rule, an entry or none, is what it
\* records when the map holds that rule alone, in whatever order the map is
\* visited and whatever the other rules run into; and the bool it returns is
\* true exactly when the map it returns has an entry.
C16_RulesIndependent ==
    matchPc = "done" =>
        /\ \A k \in DOMAIN keywords :
              LET alone == checkKeywords(body, [j \in {k} |-> keywords[k]], <<k>>)
              IN  /\ k \in DOMAIN found <=> k \in DOMAIN alone.found
                  /\ k \in DOMAIN found => found[k] = alone.found[k]
        /\ DOMAIN found \subseteq DOMAIN keywords
        /\ status <=> DOMAIN found # {}

\* two rules: the CIDR rule runs into a quad that is no address, the literal
\* rule records its line
C16_Witness ==
    /\ matchPc = "done"
    /\ body = <<"999.1.1.1", " ", "p">>
    /\ CidrRules # {}
    /\ DOMAIN found = {<<"p">>}
    /\ status

\* ----------------------------------------------------- properties: pipeline

\* the pastes of the control loop waiting in chanOutput
Dispatches(q) == Cardinality({i \in 1..Len(q) : q[i].from = "main"})

\* C17: when p.fetch returns, the control loop does exactly one of three
\* things: it sends one error on chanError and nothing on chanOutput; or it
\* sends one paste on chanOutput and nothing on chanError; or it sends nothing.
\* It sends nothing more for the item afterwards, and every paste it sends
\* comes from a checkKeywords call that returned true.
C17_OneOutcomePerItem ==
    [][ /\ (pc = "fetching" /\ pc' # pc) =>
              \/ /\ pc' = "fetchErr"
                 /\ chanError' = Append(chanError, FetchFailure)
                 /\ chanOutput' = chanOutput
              \/ /\ pc' = "dispatch"
                 /\ Len(chanOutput') = Len(chanOutput) + 1
                 /\ chanOutput'[Len(chanOutput')].key = pastes[idx]
                 /\ chanError' = chanError
              \/ /\ pc' = "delay"
                 /\ chanOutput' = chanOutput
                 /\ chanError' = chanError
        /\ pc \in {"fetchErr", "dispatch", "delay"} =>
              /\ FromMain(chanError') <= FromMain(chanError)
              /\ Dispatches(chanOutput') <= Dispatches(chanOutput)
        /\ \A i \in 1..Len(chanOutput') : chanOutput'[i].status
        /\ FromMain(chanError') + Dispatches(chanOutput') <= 1
        ]_vars

\* two items in one listing: the fetch of one failed, the other matched, and
\* both the error and the paste have been taken
C17_Witness ==
    /\ pc = "delay"
    /\ idx = 2
    /\ cycleErrs = 1
    /\ cycleOuts = 1
    /\ chanError = <<>>
    /\ chanOutput = <<>>

\* the entries of map m that are no older than the retention
Young(m) == [k \in {j \in DOMAIN m : m[j] <= Retention} |-> m[k]]

\* C18, as the claim states it: every iteration of the for loop that called
\* fetchPasteList ends with one pass over alredyChecked that deletes the
\* entries older than ten minutes.
C18_EvictionEveryCycle ==
    [][ (pc # "wait" /\ pc' = "wait") =>
            /\ pc = "item" /\ idx > Len(pastes)
            /\ alredyChecked' = Young(alredyChecked)
        ]_vars

\* C18, amended: an iteration whose fetchPasteList call returned a listing ends
\* with one pass over alredyChecked, after the last item of the listing and
\* before the next iteration starts, that deletes exactly the entries older
\* than ten minutes; an iteration whose fetchPasteList call failed ends with no
\* pass; and no entry is deleted anywhere else.
C18_EvictionAfterListing ==
    [][ /\ (pc # "wait" /\ pc' = "wait") =>
              IF listOk
              THEN /\ pc = "item" /\ idx > Len(pastes)
                   /\ alredyChecked' = Young(alredyChecked)
              ELSE /\ pc = "listErr"
                   /\ SameEntries(alredyChecked, alredyChecked')
        /\ (pc = "item" /\ idx <= Len(pastes)) => pc' # "wait"
        /\ DOMAIN alredyChecked' # DOMAIN alredyChecked =>
              \/ pc = "item" /\ pc' = "wait" /\ listOk
              \/ pc = "item" /\ pc' = "fetching"
        ]_vars

\* both items of a listing were fetched, a long call lay between them, and the
\* pass at the end of the iteration deleted the entry of the first
C18_Witness ==
    /\ pc = "wait" /\ listOk
    /\ \A k \in Keys : cycleFetches[k] = 1
    /\ Cardinality(DOMAIN alredyChecked) = 1

\* C19: a key whose p.fetch call failed stays in alredyChecked with the time
\* stored before the call; its entry goes only in an eviction pass that finds
\* it older than the retention; and as long as the entry is there an item with
\* that key is passed over without a p.fetch call.
C19_FailedStaysMarked ==
    [][ /\ ((pc = "fetching" /\ pc' = "fetchErr") \/ pc = "fetchErr") =>
              /\ pastes[idx] \in DOMAIN alredyChecked'
              /\ alredyChecked'[pastes[idx]] >= alredyChecked[pastes[idx]]
              /\ cycleFetches' = cycleFetches
        /\ \A k \in DOMAIN alredyChecked :
              ~(k \in DOMAIN alredyChecked') =>
                  EvictStep /\ alredyChecked[k] > Retention
        /\ (AtItem /\ pastes[idx] \in DOMAIN alredyChecked) =>
              pc' = "item" /\ cycleFetches' = cycleFetches
        /\ FetchStep => ~(pastes[idx] \in DOMAIN alredyChecked)
        ]_vars

\* the fetch of a key failed; the listing holds the key again, and that item
\* was passed over
C19_Witness ==
    /\ pc = "item"
    /\ idx = 3
    /\ pastes[1] = pastes[2]
    /\ cycleErrs = 1
    /\ cycleFetches[pastes[1]] = 1
    /\ pastes[1] \in DOMAIN alredyChecked

\* C20: the channels hold no value on their own: a value is in a channel only
\* while its sender waits in the send, and the sender goes on only when a
\* worker has taken the value.  So at most one paste waits for the output
\* worker, and while the output worker is busy with the paste before, in
\* sendPasteMessage or sending its error, the control loop stays in its send:
\* it fetches nothing.
C20_Rendezvous ==
    [][ /\ Len(chanOutput') <= 1
        /\ Len(outLog') <= 1
        /\ chanOutput' # <<>> => pc' = "dispatch"
        /\ FromMain(chanError') > 0 => pc' \in {"listErr", "fetchErr"}
        /\ FromOut(chanError') > 0 => outPc' = "err"
        /\ (pc = "dispatch" /\ chanOutput # <<>> /\ outPc # "recv") =>
              /\ pc' = pc
              /\ chanOutput' = chanOutput
              /\ cycleFetches' = cycleFetches
        /\ (pc = "dispatch" /\ pc' # pc) => chanOutput = <<>>
        /\ (pc \in {"listErr", "fetchErr"} /\ pc' # pc) => FromMain(chanError) = 0
        ]_vars

\* the control loop waits to hand over a paste while the output worker is in
\* sendPasteMessage for the paste before
C20_Witness ==
    /\ pc = "dispatch"
    /\ chanOutput # <<>>
    /\ outPc = "send"
    /\ errPc = "recv"
    /\ chanError = <<>>

====
